---- MODULE Spec2Model ----
(***************************************************************************)
(* The authentication / session state machine of the OpenID Connect demo   *)
(* (src/index.js): the Express routes, the Passport session integration    *)
(* and the Prisma user store (schema of src/backups/migration.sql.bak).    *)
(*                                                                         *)
(* Every HTTP request of a client is a short sequence of steps, one per    *)
(* suspension point of its handler (the awaits on the user store and the   *)
(* callbacks of the session store), so that requests of different clients  *)
(* interleave at exactly the points where the code yields.                 *)
(***************************************************************************)
EXTENDS Integers, FiniteSets, Sequences, TLC

VARIABLES
    users,      \* the User table: a set of rows
    nextId,     \* the AUTOINCREMENT counter of User.id
    clock,      \* the store's CURRENT_TIMESTAMP, a logical time
    sessions,   \* the session backing store: session id -> session record
    cookie,     \* per client: the session id its cookie carries (NoSid: none)
    req,        \* per client: the request in flight
    hist,       \* per client: what the client has done since (history)
    started,    \* number of requests received so far
    removed     \* number of rows removed from the table from outside so far

vars == <<users, nextId, clock, sessions, cookie, req, hist, started, removed>>

----------------------------------------------------------------------------
(* Bounds of the model. *)

\* The requests the server receives in one run.
MaxRequests == 3
\* The rows an operator of the database removes from outside the program.
MaxDeletes == 1

----------------------------------------------------------------------------
(* Values. *)

Clients == {"c1", "c2"}

NoSid == 0
NoId == 0
\* SQL NULL, and JavaScript's undefined (a field the profile does not carry).
Null == "NULL"
Undefined == "undefined"

\* req.user when nobody is logged in (null / undefined): a row-shaped blank.
NoUser == [id |-> NoId, googleId |-> Null, email |-> Null, name |-> Null,
           picture |-> Null, createdAt |-> 0]

GoogleIds == {"g1", "g2"}

\* What a Google profile may carry besides its id: emails[0].value,
\* displayName, photos[0].value; emails and photos may be missing.
ProfileFields ==
    { [email |-> "e1", name |-> "n1", picture |-> "p1"],
      [email |-> Undefined, name |-> "n2", picture |-> Undefined] }

Profiles ==
    { [id |-> g, email |-> f.email, displayName |-> f.name, photo |-> f.picture] :
        g \in GoogleIds, f \in ProfileFields }

Routes == {"/", "/login", "/auth/google", "/auth/google/callback",
           "/dashboard", "/logout", "/dev-login"}

----------------------------------------------------------------------------
(* The user store: table User of the migration, used through Prisma. *)

\* userData of the Google verify callback, from the provider's profile.
UserData(profile) ==
    [googleId |-> profile.id, email |-> profile.email,
     name |-> profile.displayName, picture |-> profile.photo]

\* The update argument of the Google upsert: email, name, picture only.
GoogleUpdate(data) == [data EXCEPT !.googleId = Undefined]

\* process.env.NODE_ENV of the running process, which the tests read and the
\* application never does; and the environments a bypass is meant for.
NODE_ENV == "production"
TestEnvs == {"test", "development"}

\* The fixed synthetic user of /dev-login (create and update argument alike).
testUser ==
    [googleId |-> "dev-google-123", email |-> "dev@example.com",
     name |-> "Dev Tester", picture |-> ""]

\* A column of a created row: a field the data does not carry is NULL.
Created(v) == IF v = Undefined THEN Null ELSE v

\* A column of an updated row: Prisma leaves a field given as undefined alone.
Updated(old, v) == IF v = Undefined THEN old ELSE v

\* INSERT: id from AUTOINCREMENT, createdAt from DEFAULT CURRENT_TIMESTAMP.
CreateRow(data, id, now) ==
    [id |-> id, googleId |-> data.googleId, email |-> Created(data.email),
     name |-> Created(data.name), picture |-> Created(data.picture),
     createdAt |-> now]

\* UPDATE of the row the where clause found: id and createdAt are not written.
UpdateRow(row, upd) ==
    [row EXCEPT !.googleId = Updated(@, upd.googleId),
                !.email = Updated(@, upd.email),
                !.name = Updated(@, upd.name),
                !.picture = Updated(@, upd.picture)]

\* The unique indexes User_googleId_key and User_email_key (NULLs never clash).
UniqueViolation(rows, row) ==
    \E o \in rows :
        /\ o.id # row.id
        /\ \/ o.googleId = row.googleId
           \/ row.email # Null /\ o.email = row.email

\* An upsert that never looks the key up and is held back by no unique index:
\* every login inserts.
UpsertAlwaysInserts(rows, googleId, update, create, id, now) ==
    [ok |-> TRUE, rows |-> rows \cup {CreateRow(create, id, now)},
     user |-> CreateRow(create, id, now), created |-> TRUE]

\* An upsert whose where clause matches whatever row there is.
UpsertAnyRow(rows, googleId, update, create, id, now) ==
    LET row == IF rows = {} THEN CreateRow(create, id, now)
               ELSE UpdateRow(CHOOSE u \in rows : TRUE,
                              [update EXCEPT !.googleId = googleId])
    IN  [ok |-> TRUE,
         rows |-> IF rows = {} THEN {row}
                  ELSE (rows \ {CHOOSE u \in rows : TRUE}) \cup {row},
         user |-> row, created |-> rows = {}]

\* prisma.user.upsert({where: {googleId}, update, create}): one atomic
\* statement of the store. ok = FALSE: the statement failed on a unique index.
Upsert(rows, googleId, update, create, id, now) ==
    LET found == {u \in rows : u.googleId = googleId}
        row == IF found = {} THEN CreateRow(create, id, now)
               ELSE UpdateRow(CHOOSE u \in found : TRUE, update)
    IN  IF UniqueViolation(rows \ found, row)
        THEN [ok |-> FALSE, rows |-> rows, user |-> NoUser, created |-> FALSE]
        ELSE [ok |-> TRUE, rows |-> (rows \ found) \cup {row}, user |-> row,
              created |-> found = {}]

\* A lookup by a key that matches no row.
FindNothing(rows, id) == NoUser

\* prisma.user.findUnique({where: {id}}): the row, or null.
FindUnique(rows, id) ==
    IF \E u \in rows : u.id = id THEN CHOOSE u \in rows : u.id = id ELSE NoUser

----------------------------------------------------------------------------
(* Passport's session integration. *)

\* passport.serializeUser: only the user id goes into the session.
serializeUser(user) == user.id

\* A guard that lets everybody through.
isAuthAlways(r) == TRUE

\* A guard that trusts the session's reference instead of the loaded user.
isAuthBySession(r) == r.hadRef

\* req.isAuthenticated() as ensureAuthenticated reads it: req.user is set.
isAuth(r) == r.user # NoUser

\* A logout that leaves the reference in the session.
LogoutKeeps(r) == r.principal

\* What req.logout leaves in req.session.passport.user.
LogoutPrincipal(r) == NoId

----------------------------------------------------------------------------
(* Requests. *)

\* The error object of a fault: the stores' errors carry no status.
NoStatus == 0
StoreError == [status |-> NoStatus, message |-> "store fault"]

NewReq ==
    [route |-> "none", pc |-> "idle", sid |-> NoSid, principal |-> NoId,
     user |-> NoUser, status |-> NoStatus, location |-> "", body |-> "",
     \* history of this request, read by the properties only
     hadRef |-> FALSE, dangling |-> FALSE,
     handshake |-> "none", saveFault |-> FALSE,
     afterLogin |-> NoId, afterLogout |-> FALSE]

Init ==
    /\ users = {}
    /\ nextId = 1
    /\ clock = 1
    /\ sessions = <<>>
    /\ cookie = [c \in Clients |-> NoSid]
    /\ req = [c \in Clients |-> NewReq]
    /\ hist = [login |-> [c \in Clients |-> NoId],
               loggedOut |-> [c \in Clients |-> FALSE]]
    /\ started = 0
    /\ removed = 0

\* A store that keeps the record it is asked to drop.
DestroyNothing(store, sid) == store

\* A store that drops, with a session, every session of the same user.
DestroyUserSessions(store, sid) ==
    IF sid \in DOMAIN store
    THEN [s \in {t \in DOMAIN store : store[t].user # store[sid].user} |->
            store[s]]
    ELSE store

\* store.destroy(sid)
Destroy(store, sid) == [s \in DOMAIN store \ {sid} |-> store[s]]

\* A session record that also keeps a copy of the user's email.
PutWithProfile(store, sid, principal) ==
    (sid :> [user |-> principal, email |-> "e1"]) @@ store

\* store.set(sid, session)
Put(store, sid, principal) == (sid :> [user |-> principal]) @@ store

\* A session id nobody holds: what generating a session id gives.
Unused(n) ==
    /\ n \notin DOMAIN sessions
    /\ \A c \in Clients : cookie[c] # n /\ req[c].sid # n

FreshSid ==
    CHOOSE n \in 1..(2 * Cardinality(Clients) + 1) :
        Unused(n) /\ \A m \in 1..(n - 1) : ~Unused(m)

\* res.redirect / res.render / res.json: the response is handed to res.end.
\* Nothing reads req.user from here on.
Answer(r, status, location, body) ==
    [r EXCEPT !.pc = "end", !.status = status, !.location = location,
              !.body = body, !.user = NoUser]

\* An error handler that shows every error's own message.
ErrorHandlerLeaks(r, err) == Answer(r, 500, "", err.message)

\* The global error handler, reached by next(err) / done(err): the status is
\* the error's or 500, the message is masked when the status is 500.
ErrorHandler(r, err) ==
    LET status == IF err.status # NoStatus THEN err.status ELSE 500
    IN  Answer(r, status, "", IF status = 500 THEN "masked" ELSE err.message)

\* A home page that only a logged-in user gets.
HomeForUsersOnly(r) ==
    IF r.user # NoUser THEN Answer(r, 200, "", "index")
    ELSE Answer(r, 302, "/login", "")

\* GET / : renders the home page.
Home(r) == Answer(r, 200, "", "index")

\* GET /login : renders the login page.
LoginPage(r) == Answer(r, 200, "", "login")

\* GET /auth/google : passport.authenticate sends the browser to the provider.
AuthGoogle(r) == Answer(r, 302, "google", "")

\* GET /auth/google/callback : passport.authenticate awaits the provider.
Callback(r) == [r EXCEPT !.pc = "handshake"]

\* A guard that notes in the session where the denied client wanted to go.
GuardRemembersTarget(r) ==
    IF isAuth(r) THEN [r EXCEPT !.pc = "list"]
    ELSE Answer([r EXCEPT !.sid = IF @ = NoSid THEN FreshSid ELSE @],
                302, "/login", "")

\* Route guard for protected endpoints: next() to the dashboard handler, which
\* awaits the user listing, or the redirect to /login.
ensureAuthenticated(r) ==
    IF isAuth(r) THEN [r EXCEPT !.pc = "list"]
    ELSE Answer(r, 302, "/login", "")

\* GET /dev-login : builds testUser and awaits the upsert.
DevLogin(r) == [r EXCEPT !.pc = "devUpsert"]

\* GET /logout : req.logout drops the user from the request and from the
\* session and saves the session; its callback waits for the store.
Logout(r) ==
    [r EXCEPT !.pc = "logoutSave", !.user = NoUser,
              !.principal = LogoutPrincipal(r),
              !.sid = IF @ = NoSid THEN FreshSid ELSE @]

\* The routes of the application, each run to its first await.
Dispatch(r) ==
    CASE r.route = "/" -> Home(r)
      [] r.route = "/login" -> LoginPage(r)
      [] r.route = "/auth/google" -> AuthGoogle(r)
      [] r.route = "/auth/google/callback" -> Callback(r)
      [] r.route = "/dashboard" -> ensureAuthenticated(r)
      [] r.route = "/logout" -> Logout(r)
      [] r.route = "/dev-login" -> DevLogin(r)

\* A request arrives. The session middleware loads the session the cookie
\* names, or starts a new uninitialised one; passport.session() awaits the
\* user lookup when the session carries a reference, and with none the route
\* runs at once.
Start(c, route) ==
    /\ req[c].pc = "idle"
    /\ started < MaxRequests
    \* clients are interchangeable: the first request of a run is c1's
    /\ started = 0 => c = "c1"
    /\ started' = started + 1
    /\ LET sid == IF cookie[c] \in DOMAIN sessions THEN cookie[c] ELSE NoSid
           su == IF sid # NoSid THEN sessions[sid].user ELSE NoId
           r == [NewReq EXCEPT !.route = route, !.sid = sid, !.principal = su,
                               !.hadRef = su # NoId,
                               !.afterLogin = hist.login[c],
                               !.afterLogout = hist.loggedOut[c]]
       IN  req' = [req EXCEPT ![c] =
                     IF su # NoId THEN [r EXCEPT !.pc = "deserialize"]
                     ELSE Dispatch(r)]
    /\ hist' = IF route = "/logout" THEN [hist EXCEPT !.login[c] = NoId]
               ELSE hist
    /\ UNCHANGED <<users, nextId, clock, sessions, cookie, removed>>

\* passport.deserializeUser has its answer. With a null user passport.session()
\* drops the reference from req.session and goes on unauthenticated; then the
\* route runs.
DeserializeUser(c) ==
    LET r == req[c]
        user == FindUnique(users, r.principal)
    IN  /\ r.pc = "deserialize"
        /\ req' = [req EXCEPT ![c] =
                     IF user = NoUser
                     THEN Dispatch([r EXCEPT !.principal = NoId,
                                             !.dangling = TRUE])
                     ELSE Dispatch([r EXCEPT !.user = user])]
        /\ UNCHANGED <<users, nextId, clock, sessions, cookie, hist, started,
                       removed>>

\* A fault of the user store in one of the awaited calls (findUnique, the two
\* upserts, findMany): each handler's catch passes it on.
StoreFault(c) ==
    /\ req[c].pc \in {"deserialize", "handshake", "devUpsert", "list"}
    /\ req' = [req EXCEPT ![c] = ErrorHandler(@, StoreError)]
    /\ UNCHANGED <<users, nextId, clock, sessions, cookie, hist, started,
                   removed>>

\* A failed handshake that opens a session for the first user all the same.
FailureEstablishes(r) ==
    Answer([r EXCEPT !.handshake = "failed", !.sid = FreshSid,
                     !.principal = 1], 302, "/login", "")

\* A failed handshake sent on to the protected landing route.
FailureToDashboard(r) ==
    Answer([r EXCEPT !.handshake = "failed"], 302, "/dashboard", "")

\* passport.authenticate with failureRedirect, the handshake having failed.
FailureRedirect(r) ==
    Answer([r EXCEPT !.handshake = "failed"], 302, "/login", "")

\* The handshake failed (the provider rejected, or the user cancelled).
CallbackFail(c) ==
    /\ req[c].pc = "handshake"
    /\ req' = [req EXCEPT ![c] = FailureRedirect(@)]
    /\ UNCHANGED <<users, nextId, clock, sessions, cookie, hist, started,
                   removed>>

\* A handler that redirects as soon as it has issued the write.
RedirectAtOnce(r, pc) == Answer(r, 302, "/dashboard", "")

\* The handler has issued a session write: it goes on in the write's callback.
AwaitSave(r, pc) == [r EXCEPT !.pc = pc]

\* req.login (called by passport.authenticate on success, and by /dev-login):
\* the session is regenerated, the serialized user is put into it, and the
\* session is saved.
Login(r, user) ==
    AwaitSave([r EXCEPT !.sid = FreshSid, !.principal = serializeUser(user),
                        !.user = user], "loginSave")

\* The upsert has run: the row goes on to req.login, a failure to the error
\* boundary.
Upserted(c, res) ==
    /\ users' = res.rows
    /\ nextId' = IF res.created THEN nextId + 1 ELSE nextId
    /\ clock' = IF res.created THEN clock + 1 ELSE clock
    /\ req' = [req EXCEPT ![c] =
                 IF res.ok THEN Login(@, res.user)
                 ELSE ErrorHandler(@, StoreError)]
    /\ sessions' = IF res.ok THEN Destroy(sessions, req[c].sid) ELSE sessions
    /\ UNCHANGED <<cookie, hist, started, removed>>

\* The handshake succeeded with this profile: the Google verify callback maps
\* it to userData, and its prisma.user.upsert runs.
GoogleVerify(c, profile) ==
    LET userData == UserData(profile) IN
    /\ req[c].pc = "handshake"
    \* Google ids are interchangeable: with no Google user stored, it is g1's
    /\ profile.id = "g2" => \E u \in users : u.googleId \in GoogleIds
    /\ Upserted(c, Upsert(users, userData.googleId, GoogleUpdate(userData),
                          userData, nextId, clock))

\* The prisma.user.upsert of /dev-login.
DevLoginUpsert(c) ==
    /\ req[c].pc = "devUpsert"
    /\ Upserted(c, Upsert(users, testUser.googleId, testUser, testUser,
                          nextId, clock))

\* The callback of req.login in passport.authenticate: next(), into the
\* success handler of the callback route, which saves the session once more
\* and redirects from that save's callback.
CallbackHandler(r) == AwaitSave(r, "handlerSave")

\* The callback of req.session.save in the callback route, no error.
CallbackSaved(r) == Answer(r, 302, "/dashboard", "")

\* The callback of req.login in /dev-login, no error.
DevLoginDone(r) == Answer(r, 302, "/dashboard", "")

\* req.logout once its save is answered: the session is regenerated and the
\* callback redirects to / .
LogoutDone(r) == Answer([r EXCEPT !.sid = FreshSid], 302, "/", "")

\* A callback that drops the error of the write and redirects all the same.
SaveFailureIgnored(r) ==
    Answer([r EXCEPT !.saveFault = TRUE], 302, "/dashboard", "")

\* The callback of a session write that failed: next(err).
SaveFailed(r) == ErrorHandler([r EXCEPT !.saveFault = TRUE], StoreError)

\* The session store acknowledges the write a request waits for, and the
\* write's callback runs.
SessionWriteAck(c) ==
    LET r == req[c] IN
    /\ r.pc \in {"loginSave", "handlerSave", "logoutSave"}
    /\ req' = [req EXCEPT ![c] =
                 CASE r.pc = "logoutSave" -> LogoutDone(r)
                   [] r.pc = "handlerSave" -> CallbackSaved(r)
                   [] r.route = "/dev-login" -> DevLoginDone(r)
                   [] OTHER -> CallbackHandler(r)]
    /\ sessions' = IF r.pc = "logoutSave" THEN Destroy(sessions, r.sid)
                   ELSE Put(sessions, r.sid, r.principal)
    /\ hist' = IF r.principal # NoId
               THEN [hist EXCEPT !.loggedOut[c] = FALSE] ELSE hist
    /\ UNCHANGED <<users, nextId, clock, cookie, started, removed>>

\* The session store fails the write a request waits for.
SessionWriteFault(c) ==
    /\ req[c].pc \in {"loginSave", "handlerSave", "logoutSave"}
    /\ req' = [req EXCEPT ![c] = SaveFailed(@)]
    /\ UNCHANGED <<users, nextId, clock, sessions, cookie, hist, started,
                   removed>>

\* The dashboard handler: prisma.user.findMany has answered, the page renders.
Dashboard(c) ==
    /\ req[c].pc = "list"
    /\ req' = [req EXCEPT ![c] =
                 Answer(@, 200, "", "dashboard")]
    /\ UNCHANGED <<users, nextId, clock, sessions, cookie, hist, started,
                   removed>>

\* Whether res.end has a session to store: the session exists (it was loaded,
\* or a handler created it) and differs from what the store holds.
ShouldSave(r) ==
    /\ r.sid # NoSid
    /\ IF r.sid \in DOMAIN sessions THEN sessions[r.sid].user # r.principal
       ELSE TRUE

\* What the answered request adds to the client's history.
Answered(c, r, stored) ==
    [login |-> [hist.login EXCEPT ![c] =
                  IF r.status = 302 /\ r.location = "/dashboard"
                  THEN r.principal ELSE @],
     loggedOut |-> [hist.loggedOut EXCEPT ![c] =
                      IF r.route = "/logout" /\ r.status = 302 THEN TRUE
                      ELSE IF stored /\ r.principal # NoId THEN FALSE ELSE @]]

\* The end of the response: the session middleware stores a changed session,
\* sets the cookie of the request's session, and the response leaves.
EndResponse(c) ==
    LET r == req[c] IN
    /\ r.pc = "end"
    /\ sessions' = IF ShouldSave(r) THEN Put(sessions, r.sid, r.principal)
                   ELSE sessions
    /\ cookie' = [cookie EXCEPT ![c] = IF r.sid # NoSid THEN r.sid ELSE @]
    /\ req' = [req EXCEPT ![c] = NewReq]
    /\ hist' = Answered(c, r, ShouldSave(r))
    /\ UNCHANGED <<users, nextId, clock, started, removed>>

\* The same, the store failing the write of the changed session.
EndResponseFault(c) ==
    LET r == req[c] IN
    /\ r.pc = "end"
    /\ ShouldSave(r)
    /\ cookie' = [cookie EXCEPT ![c] = r.sid]
    /\ req' = [req EXCEPT ![c] = NewReq]
    /\ hist' = Answered(c, r, FALSE)
    /\ UNCHANGED <<users, nextId, clock, sessions, started, removed>>

\* A row leaves the table from outside the program (the program itself never
\* deletes): what makes a session's reference dangle.
ExternalDelete ==
    /\ removed < MaxDeletes
    /\ \E u \in users : users' = users \ {u}
    /\ removed' = removed + 1
    /\ UNCHANGED <<nextId, clock, sessions, cookie, req, hist, started>>

----------------------------------------------------------------------------
(* Specifications. *)

\* One step of one request.
Handler(c) ==
    \/ \E route \in Routes : Start(c, route)
    \/ DeserializeUser(c)
    \/ CallbackFail(c)
    \/ \E profile \in Profiles : GoogleVerify(c, profile)
    \/ DevLoginUpsert(c)
    \/ SessionWriteAck(c)
    \/ Dashboard(c)
    \/ EndResponse(c)

\* A fault of a collaborator met by one request.
Fault(c) ==
    \/ StoreFault(c)
    \/ SessionWriteFault(c)
    \/ EndResponseFault(c)

\* The program with faulting collaborators and rows removed from outside.
Next ==
    \/ \E c \in Clients : Handler(c)
    \/ \E c \in Clients : Fault(c)
    \/ ExternalDelete

Spec == Init /\ [][Next]_vars

\* The program alone: no row is removed from outside.
NextProgram ==
    \/ \E c \in Clients : Handler(c)
    \/ \E c \in Clients : Fault(c)

SpecProgram == Init /\ [][NextProgram]_vars

\* The collaborators never fault.
NextNoFault ==
    \/ \E c \in Clients : Handler(c)
    \/ ExternalDelete

SpecNoFault == Init /\ [][NextNoFault]_vars

----------------------------------------------------------------------------
(* Two clients logged in as the same user: the state after each of them has
   been through GET /dev-login, from where a run has its requests to spend. *)

BothLoggedIn ==
    /\ users = {CreateRow(testUser, 1, 1)}
    /\ nextId = 2
    /\ clock = 2
    /\ sessions = (1 :> [user |-> 1]) @@ (2 :> [user |-> 1])
    /\ cookie = [c \in Clients |-> IF c = "c1" THEN 1 ELSE 2]
    /\ req = [c \in Clients |-> NewReq]
    /\ hist = [login |-> [c \in Clients |-> 1],
               loggedOut |-> [c \in Clients |-> FALSE]]
    /\ removed = 0

InitBothLoggedIn == BothLoggedIn /\ started = 0

SpecBothLoggedIn == InitBothLoggedIn /\ [][NextNoFault]_vars

----------------------------------------------------------------------------

(* The error handler on its own: any error, on any route. *)

\* The errors next(err) may hand over: with no status property, or with one.
ErrorStatuses == {NoStatus, 400, 404, 500, 502, 503}
Errors == [status : ErrorStatuses, message : {"detail"}]

\* An error reaches the global error handler.
Raise(c, route, err) ==
    /\ req[c].pc = "idle"
    /\ req' = [req EXCEPT ![c] = ErrorHandler([NewReq EXCEPT !.route = route], err)]
    /\ UNCHANGED <<users, nextId, clock, sessions, cookie, hist, started,
                   removed>>

NextErrorHandler ==
    \E c \in Clients :
        \/ \E route \in Routes, err \in Errors : Raise(c, route, err)
        \/ EndResponse(c)

SpecErrorHandler == Init /\ [][NextErrorHandler]_vars

----------------------------------------------------------------------------
(* Properties. *)

\* The session state of a client between requests: Authenticated when its
\* cookie names a stored session whose reference resolves to a row.
Authenticated(c) ==
    /\ cookie[c] \in DOMAIN sessions
    /\ \E u \in users : u.id = sessions[cookie[c]].user

RedirectsToLogin(r) == r.status = 302 /\ r.location = "/login"
RedirectsToDashboard(r) == r.status = 302 /\ r.location = "/dashboard"
EstablishRoutes == {"/auth/google/callback", "/dev-login"}

\* C1: a GET /dashboard whose session carries no principal reference (no
\* session, or a session without one) never reaches the dashboard handler or
\* its user listing, and its answer is the 302 to /login.
C1_AnonymousDashboard ==
    \A c \in Clients :
        LET r == req[c] IN
        (r.route = "/dashboard" /\ ~r.hadRef) =>
            /\ r.pc # "list"
            /\ r.pc = "end" => RedirectsToLogin(r)

\* An anonymous client that holds a session without reference is redirected.
C1_Witness ==
    \E c \in Clients :
        /\ req[c].route = "/dashboard" /\ req[c].pc = "end"
        /\ ~req[c].hadRef /\ req[c].sid # NoSid
        /\ RedirectsToLogin(req[c])

\* C2: whenever the callback route or /dev-login has issued the 302 to
\* /dashboard, the session store holds the request's session with the
\* principal reference in it: the write was acknowledged before the redirect.
C2_SavedBeforeRedirect ==
    \A c \in Clients :
        LET r == req[c] IN
        (r.pc = "end" /\ r.route \in EstablishRoutes /\ RedirectsToDashboard(r)) =>
            /\ r.principal # NoId
            /\ r.sid \in DOMAIN sessions
            /\ sessions[r.sid].user = r.principal

\* Both establishing routes have issued their redirect.
C2_Witness ==
    \E c, d \in Clients :
        /\ req[c].pc = "end" /\ req[c].route = "/auth/google/callback"
        /\ RedirectsToDashboard(req[c])
        /\ req[d].pc = "end" /\ req[d].route = "/dev-login"
        /\ RedirectsToDashboard(req[d])

\* C3: a GET /dashboard of a client that has completed a login (answered 302
\* to /dashboard) and has asked for no logout since, the user's row being
\* still there, is answered 200 with the dashboard.
C3_DashboardAfterLogin ==
    \A c \in Clients :
        LET r == req[c] IN
        (/\ r.route = "/dashboard" /\ r.pc = "end"
         /\ r.afterLogin # NoId
         /\ \E u \in users : u.id = r.afterLogin) =>
            r.status = 200 /\ r.body = "dashboard"

C3_Witness ==
    \E c \in Clients :
        /\ req[c].route = "/dashboard" /\ req[c].pc = "end"
        /\ req[c].afterLogin # NoId
        /\ \E u \in users : u.id = req[c].afterLogin
        /\ req[c].status = 200

\* C4: a GET /dashboard of a client whose logout was answered 302 to / and
\* for which no session has been established since never reaches the
\* dashboard handler, and its answer is the 302 to /login.
C4_DashboardAfterLogout ==
    \A c \in Clients :
        LET r == req[c] IN
        (r.route = "/dashboard" /\ r.afterLogout) =>
            /\ r.pc \notin {"deserialize", "list"}
            /\ r.pc = "end" => RedirectsToLogin(r)

\* The client had logged in before that logout.
C4_Witness ==
    \E c \in Clients :
        /\ req[c].route = "/dashboard" /\ req[c].pc = "end"
        /\ req[c].afterLogout
        /\ RedirectsToLogin(req[c])
        /\ \E u \in users : u.googleId = testUser.googleId

\* The rows of the other external ids, and the row of this one.
Others(rows, googleId) == {a \in rows : a.googleId # googleId}
RowsOf(rows, googleId) == {b \in rows : b.googleId = googleId}

\* The step is the upsert of a login with this external id, in a request of c.
LoginUpsert(c, googleId) ==
    \/ \E p \in Profiles : p.id = googleId /\ GoogleVerify(c, p)
    \/ googleId = testUser.googleId /\ DevLoginUpsert(c)

\* C5: never two rows with the same external id; every row ever inserted is
\* still there, one per id handed out; a login upsert that goes on to
\* establish the session leaves exactly one row of its external id, the one
\* the session will refer to; and no step of the program takes the row of an
\* external id away.
C5_OneRowPerExternalId ==
    /\ [](\A u, v \in users : u.googleId = v.googleId => u = v)
    /\ [](Cardinality(users) = nextId - 1)
    /\ [][\A c \in Clients, g \in GoogleIds \cup {testUser.googleId} :
            (LoginUpsert(c, g) /\ req'[c].pc = "loginSave") =>
                /\ Cardinality(RowsOf(users', g)) = 1
                /\ \A b \in RowsOf(users', g) : b.id = req'[c].principal]_vars
    /\ [][\A u \in users : RowsOf(users', u.googleId) # {}]_vars

\* Two logins with the same external id are in flight at once, both past the
\* upsert, and there is one row.
C5_Witness ==
    /\ \A c \in Clients :
           /\ req[c].pc = "loginSave"
           /\ req[c].route = "/auth/google/callback"
    /\ req["c1"].principal = req["c2"].principal
    /\ Cardinality(users) = 1

\* C6: a login upsert for an external id that has a row leaves the row's id
\* and createdAt and the number of rows as they were, and the row's email,
\* name and picture are the values this login supplied (an attribute the
\* login did not supply is absent from the row).
C6_RowReflectsLatestLogin ==
    [][\A c \in Clients, p \in Profiles :
         (GoogleVerify(c, p) /\ req'[c].pc = "loginSave"
                             /\ RowsOf(users, p.id) # {}) =>
             LET old == CHOOSE u \in users : u.googleId = p.id
                 new == CHOOSE u \in users' : u.googleId = p.id
                 data == UserData(p)
             IN  /\ new.id = old.id
                 /\ new.createdAt = old.createdAt
                 /\ Cardinality(users') = Cardinality(users)
                 /\ new.email = Created(data.email)
                 /\ new.name = Created(data.name)
                 /\ new.picture = Created(data.picture)]_vars

\* What the second login needs of the first row for the claim of C7.
SecondLoginLeavesTwo(c, googleId) ==
    /\ req'[c].pc = "loginSave"
    /\ Others(users, googleId) \subseteq users'
    /\ \E b \in RowsOf(users', googleId) :
           /\ b.id = req'[c].principal
           /\ \A a \in Others(users, googleId) : a.id # b.id

\* The email this login supplies is the email of another external id's row.
EmailTaken(googleId, email) ==
    /\ email # Undefined
    /\ \E a \in Others(users, googleId) : a.email = email

\* C7 as stated: a login with external id B, a row of another external id A
\* being there, whatever the profile fields, goes on to establish the session,
\* leaves A's row as it was, and leaves a row of B with another id.
C7_AnyEmail ==
    [][\A c \in Clients, p \in Profiles :
         (GoogleVerify(c, p) /\ Others(users, p.id) # {}) =>
             SecondLoginLeavesTwo(c, p.id)]_vars

\* C7: the same, for a login whose profile carries no email or an email that
\* no row of another external id holds.
C7_DistinctUsers ==
    /\ [][\A c \in Clients, p \in Profiles :
            (/\ GoogleVerify(c, p)
             /\ Others(users, p.id) # {}
             /\ ~EmailTaken(p.id, UserData(p).email)) =>
                SecondLoginLeavesTwo(c, p.id)]_vars
    /\ [][\A c \in Clients :
            (/\ DevLoginUpsert(c)
             /\ Others(users, testUser.googleId) # {}
             /\ ~EmailTaken(testUser.googleId, testUser.email)) =>
                SecondLoginLeavesTwo(c, testUser.googleId)]_vars

\* Two Google users without email, the second one's login past its upsert.
C7_Witness ==
    \E c \in Clients, a, b \in users :
        /\ a.googleId = "g1" /\ b.googleId = "g2"
        /\ a.email = Null /\ b.email = Null
        /\ a.id # b.id
        /\ req[c].pc = "loginSave" /\ req[c].principal = b.id

PublicOrGuarded == {"/", "/login", "/auth/google", "/dashboard"}

\* C8: a request whose session's reference resolved to no row is handled as
\* an anonymous one: on the public routes and the dashboard route it is
\* answered at once, never by the error handler; / and /login render, and
\* /dashboard never reaches its handler and is answered 302 to /login.
C8_DanglingIsAnonymous ==
    \A c \in Clients :
        LET r == req[c] IN
        (r.dangling /\ r.route \in PublicOrGuarded) =>
            /\ r.user = NoUser /\ r.principal = NoId
            /\ r.pc = "end"
            /\ r.status \in {200, 302}
            /\ r.body # "masked"
            /\ r.route = "/" => r.status = 200 /\ r.body = "index"
            /\ r.route = "/login" => r.status = 200 /\ r.body = "login"
            /\ r.route = "/dashboard" => RedirectsToLogin(r)

C8_Witness ==
    \E c \in Clients :
        /\ req[c].dangling /\ req[c].route = "/dashboard"
        /\ req[c].pc = "end" /\ RedirectsToLogin(req[c])

\* The step belongs to a callback request of c whose handshake fails: the
\* failure itself, or the end of that request's response.
FailedHandshakeStep(c) ==
    \/ req[c].pc = "handshake" /\ req'[c].handshake = "failed"
    \/ req[c].pc = "end" /\ req[c].handshake = "failed" /\ req'[c].pc = "idle"

\* C9: the failure of the handshake answers 302 to /login; neither it nor the
\* end of that response touches a User row, changes whether the client is
\* Authenticated, or writes a principal reference to the session store.
C9_FailedHandshake ==
    [][\A c \in Clients :
         FailedHandshakeStep(c) =>
             /\ req[c].pc = "handshake" => RedirectsToLogin(req'[c])
             /\ req[c].pc = "end" => RedirectsToLogin(req[c])
             /\ users' = users /\ nextId' = nextId
             /\ Authenticated(c)' = Authenticated(c)
             /\ \A sid \in DOMAIN sessions' :
                    sessions'[sid].user # NoId =>
                        /\ sid \in DOMAIN sessions
                        /\ sessions[sid] = sessions'[sid]]_vars

\* An anonymous client's handshake has failed and the answer is ready.
C9_Witness ==
    \E c \in Clients :
        /\ req[c].pc = "end" /\ req[c].handshake = "failed"
        /\ ~req[c].hadRef /\ ~Authenticated(c)
        /\ RedirectsToLogin(req[c])

\* C10: a request on an establishing route whose session write failed is
\* answered by the error handler with 500 and the masked message, not with
\* the redirect to /dashboard.
C10_SaveFaultIsServerFault ==
    \A c \in Clients :
        LET r == req[c] IN
        (r.saveFault /\ r.route \in EstablishRoutes) =>
            /\ r.pc = "end"
            /\ r.status = 500 /\ r.body = "masked"
            /\ ~RedirectsToDashboard(r)

\* The write failed in a callback request and in a /dev-login request.
C10_Witness ==
    \E c, d \in Clients :
        /\ req[c].saveFault /\ req[c].route = "/auth/google/callback"
        /\ req[d].saveFault /\ req[d].route = "/dev-login"

\* The session record the client's cookie names holds no principal reference.
RecordCleared(c) ==
    IF cookie[c] \in DOMAIN sessions THEN sessions[cookie[c]].user = NoId
    ELSE TRUE

\* C11: a GET /logout that holds the 302 to / has dropped the user and the
\* reference from the request, its session write did not fail, and the
\* record the client's cookie names holds no reference any more; a GET /logout
\* whose session write failed is answered 500 by the error handler, not 302.
C11_LogoutClearsBoth ==
    \A c \in Clients :
        LET r == req[c] IN
        r.route = "/logout" =>
            /\ (r.pc = "end" /\ r.status = 302) =>
                   /\ r.location = "/"
                   /\ r.user = NoUser /\ r.principal = NoId
                   /\ ~r.saveFault
                   /\ RecordCleared(c)
                   /\ r.sid \notin DOMAIN sessions
            /\ r.saveFault =>
                   r.pc = "end" /\ r.status = 500 /\ r.body = "masked"

\* A client that arrived with a resolving reference is told it is logged out.
C11_Witness ==
    \E c \in Clients :
        /\ req[c].route = "/logout" /\ req[c].pc = "end"
        /\ req[c].hadRef /\ ~req[c].dangling
        /\ req[c].status = 302 /\ req[c].location = "/"

\* No principal reference is in the session store after the step that was
\* not there before it.
NoReferenceWritten ==
    \A sid \in DOMAIN sessions' :
        sessions'[sid].user # NoId =>
            sid \in DOMAIN sessions /\ sessions[sid] = sessions'[sid]

\* The step is a login upsert of c that the store rejects.
UpsertRejected(c) ==
    /\ \E g \in GoogleIds \cup {testUser.googleId} : LoginUpsert(c, g)
    /\ req'[c].pc = "end"

\* The step is a store fault in the lookup or in a login upsert of c.
LookupOrUpsertFault(c) ==
    \/ StoreFault(c) /\ req[c].pc \in {"deserialize", "handshake", "devUpsert"}
    \/ UpsertRejected(c)

\* C12: a store fault in the user lookup or in a login upsert is answered by
\* the error handler with 500 and the masked message, and changes neither the
\* user store nor the session store; the end of the response of a request on
\* an establishing route that failed so leaves the client Authenticated
\* exactly if it was, writes no principal reference, and was no redirect to
\* /dashboard; and no answer ever carries the fault's own message.
C12_StoreFaultIsMasked ==
    /\ [](\A c \in Clients : req[c].body # StoreError.message)
    /\ [][\A c \in Clients :
            LookupOrUpsertFault(c) =>
                /\ req'[c].pc = "end"
                /\ req'[c].status = 500 /\ req'[c].body = "masked"
                /\ users' = users /\ sessions' = sessions /\ cookie' = cookie]_vars
    /\ [][\A c \in Clients :
            (/\ req[c].pc = "end" /\ req'[c].pc = "idle"
             /\ req[c].route \in EstablishRoutes
             /\ req[c].status = 500 /\ ~req[c].saveFault) =>
                /\ Authenticated(c)' = Authenticated(c)
                /\ NoReferenceWritten
                /\ users' = users]_vars

\* An anonymous client's login upsert has met a store fault, and another
\* request a fault of the user lookup.
C12_Witness ==
    \E c, d \in Clients :
        /\ req[c].pc = "end" /\ req[c].route \in EstablishRoutes
        /\ req[c].status = 500 /\ ~req[c].saveFault /\ ~req[c].hadRef
        /\ req[d].pc = "end" /\ req[d].route \notin EstablishRoutes
        /\ req[d].status = 500 /\ req[d].hadRef

RendersHome(r) == r.status = 200 /\ r.body = "index"

\* C13 as stated: every answer to GET / is 200 with the home page.
C13_HomeAlways ==
    \A c \in Clients :
        (req[c].route = "/" /\ req[c].pc = "end") => RendersHome(req[c])

\* C13: GET / is answered 200 with the home page for a client without
\* reference, with a reference that resolves, and with one that resolves to
\* no row; the one other answer is the error handler's 500 with the masked
\* message, and the one step that leads to it is a store fault of the user
\* lookup.
C13_HomeUnlessLookupFault ==
    /\ [](\A c \in Clients :
            LET r == req[c] IN
            r.route = "/" =>
                /\ r.pc \in {"deserialize", "end"}
                /\ r.pc = "end" =>
                       \/ RendersHome(r)
                       \/ /\ r.status = 500 /\ r.body = "masked"
                          /\ r.hadRef /\ ~r.dangling)
    /\ [][\A c \in Clients :
            (/\ req'[c].route = "/" /\ req'[c].pc = "end"
             /\ req[c].pc # "end"
             /\ ~RendersHome(req'[c])) =>
                req[c].pc = "deserialize" /\ StoreFault(c)]_vars

\* The home page for a client whose reference resolved to no row.
C13_Witness ==
    \E c \in Clients :
        /\ req[c].route = "/" /\ req[c].pc = "end"
        /\ req[c].hadRef /\ req[c].dangling
        /\ RendersHome(req[c])

\* The status classifies the error as a server fault: 5xx, or no status.
ServerFault(status) == status = NoStatus \/ status \in 500..599

\* C14: for every error that reaches the error handler, the message sent is
\* the masked one when the error's status is a 5xx or missing, and the
\* error's own message when the status is a 4xx.
C14_MaskedByClass ==
    [][\A c \in Clients, route \in Routes, err \in Errors :
         Raise(c, route, err) =>
             req'[c].body = IF ServerFault(err.status) THEN "masked"
                            ELSE err.message]_vars

\* C15: outside a test/demo environment no GET /dev-login gets to its upsert
\* or to req.login, none is answered with the redirect to /dashboard, and the
\* synthetic user has no row.
C15_DevLoginOnlyInTest ==
    NODE_ENV \notin TestEnvs =>
        /\ \A c \in Clients :
               req[c].route = "/dev-login" =>
                   /\ req[c].pc \notin {"devUpsert", "loginSave"}
                   /\ ~RedirectsToDashboard(req[c])
        /\ \A u \in users : u.googleId # testUser.googleId

\* C16: a stored session record holds the principal reference and nothing
\* else, and the reference is a User id or none; a request whose reference
\* resolves goes on with the row as the table holds it at that moment; and a
\* login upsert leaves every session record but the request's own in the
\* store as it is.
C16_SessionHoldsIdOnly ==
    /\ [](\A sid \in DOMAIN sessions :
            /\ DOMAIN sessions[sid] = {"user"}
            /\ sessions[sid].user \in 0..(nextId - 1))
    /\ [][\A c \in Clients :
            (/\ req[c].pc = "deserialize"
             /\ req'[c].pc \in {"list", "handshake", "devUpsert"}
             /\ ~req'[c].dangling) =>
                /\ req'[c].user \in users
                /\ req'[c].user.id = sessions[req[c].sid].user]_vars
    /\ [][\A c \in Clients :
            (/\ req[c].pc \in {"handshake", "devUpsert"}
             /\ req'[c].pc = "loginSave") =>
                \A sid \in DOMAIN sessions \ {req[c].sid} :
                    sid \in DOMAIN sessions' /\ sessions'[sid] = sessions[sid]]_vars

\* A session established by the first login of g1 sees, at the dashboard, the
\* name the later login of g1 by another client brought, that client's
\* session being in the store as well.
C16_Witness ==
    \E c, d \in Clients :
        /\ c # d
        /\ req[c].pc = "list"
        /\ req[c].user.email = "e1" /\ req[c].user.name = "n2"
        /\ cookie[d] \in DOMAIN sessions
        /\ sessions[cookie[d]].user = req[c].principal
        /\ req[c].sid < cookie[d]

\* C17: a step after which a client is Authenticated that was not before it
\* is the end of the response of that client's request on the callback route
\* or on /dev-login, the handshake not failed, the login upsert done and
\* req.login's new session carrying the reference; the end of no other
\* request, and no other step, makes a client Authenticated.
C17_AuthenticatedOnlyByLogin ==
    [][\A c \in Clients :
         (~Authenticated(c) /\ Authenticated(c)') =>
             /\ req[c].pc = "end" /\ req'[c].pc = "idle"
             /\ req[c].route \in EstablishRoutes
             /\ req[c].handshake # "failed"
             /\ req[c].principal # NoId
             /\ req[c].sid # cookie[c]
             /\ cookie'[c] = req[c].sid]_vars

\* A client is Authenticated by its /dev-login, and another, whose handshake
\* has failed, is not.
C17_Witness ==
    \E c, d \in Clients :
        /\ Authenticated(c) /\ req[c].pc = "idle"
        /\ hist.login[c] = sessions[cookie[c]].user
        /\ \E u \in users : /\ u.googleId = testUser.googleId
                            /\ u.id = sessions[cookie[c]].user
        /\ req[d].pc = "end" /\ req[d].handshake = "failed"
        /\ ~Authenticated(d)

\* The step in which the guard of c's GET /dashboard decides.
GuardStep(c) ==
    /\ req'[c].route = "/dashboard"
    /\ req[c].pc \in {"idle", "deserialize"}
    /\ req'[c].pc = "list" \/ (req'[c].pc = "end" /\ RedirectsToLogin(req'[c]))

\* The end of the response of c's GET /dashboard that the guard denied.
DeniedEnd(c) ==
    /\ req[c].route = "/dashboard"
    /\ req[c].pc = "end" /\ RedirectsToLogin(req[c])
    /\ req'[c].pc = "idle"

\* C18: the guard's step, whichever way it decides, changes neither the user
\* store nor the session store nor a cookie; and the end of a denied request
\* changes no User row, leaves the client Authenticated exactly if it was,
\* writes no principal reference, and changes the session store at all only
\* to drop a reference that resolved to no row.
C18_GuardHasNoEffect ==
    /\ [][\A c \in Clients :
            GuardStep(c) =>
                users' = users /\ sessions' = sessions /\ cookie' = cookie]_vars
    /\ [][\A c \in Clients :
            DeniedEnd(c) =>
                /\ users' = users /\ cookie' = cookie
                /\ Authenticated(c)' = Authenticated(c)
                /\ ~Authenticated(c)
                /\ NoReferenceWritten
                /\ ~req[c].dangling => sessions' = sessions]_vars

\* The guard has let one client through and denied the other.
C18_Witness ==
    \E c, d \in Clients :
        /\ req[c].route = "/dashboard" /\ req[c].pc = "list"
        /\ req[d].route = "/dashboard" /\ req[d].pc = "end"
        /\ RedirectsToLogin(req[d])

\* Client d's session as the store and its cookie hold it.
SessionOf(d) ==
    [cookie |-> cookie[d],
     record |-> IF cookie[d] \in DOMAIN sessions THEN sessions[cookie[d]]
                ELSE [user |-> NoId],
     stored |-> cookie[d] \in DOMAIN sessions,
     authenticated |-> Authenticated(d)]

\* C19: a step of one client's request (of a login, a logout, a failed or
\* any other request) leaves every other client's cookie, stored session
\* record and Authenticated state as they were; and a GET /dashboard of a
\* client that logged in and did not log out, its row being there, is
\* answered 200 with the dashboard also when another client has logged out.
C19_SessionsIndependent ==
    /\ [][\A c, d \in Clients :
            (c # d /\ req'[c] # req[c]) => SessionOf(d)' = SessionOf(d)]_vars
    /\ [](\A x, y \in Clients :
            (/\ x # y /\ hist.loggedOut[x]
             /\ req[y].route = "/dashboard" /\ req[y].pc = "end"
             /\ req[y].afterLogin # NoId
             /\ \E u \in users : u.id = req[y].afterLogin) =>
                req[y].status = 200 /\ req[y].body = "dashboard")

\* Both clients were logged in as the same user; one has logged out, and the
\* other's GET /dashboard is answered 200.
C19_Witness ==
    \E x, y \in Clients :
        /\ x # y
        /\ hist.loggedOut[x] /\ ~Authenticated(x)
        /\ req[y].route = "/dashboard" /\ req[y].pc = "end"
        /\ req[y].afterLogin = 1
        /\ req[y].status = 200 /\ req[y].body = "dashboard"

\* The state the runs of SpecBothLoggedIn start from, as the program reaches
\* it from its start with two requests.
BothLoggedInReached == BothLoggedIn /\ started = 2

====
